---- MODULE Spec2Model ----
(***************************************************************************)
(* A model of findiff/operators.py: the PartialDerivative constructor and  *)
(* its argument validation, the uniform and non-uniform stencil engines    *)
(* (_diff, _diff_non_uni, _apply_to_array, _shift_slice), and the          *)
(* Plus / Multiply combinators.                                            *)
(*                                                                         *)
(* Python values are records [t, v, items]: t is the type tag ("int",      *)
(* "float", "tuple"), v the number an int holds, items a tuple's elements. *)
(* numpy arrays are two-dimensional: [shape |-> <<n0, n1>>, data |-> a     *)
(* function from index pairs to integers].  Exceptions are the strings     *)
(* "ValueError" and "IndexError"; "none" is a normal return.               *)
(***************************************************************************)
EXTENDS Integers, Sequences, FiniteSets, TLC

VARIABLES
    pc,        \* position in the modelled call
    exc,       \* the exception the call raised, "none" if it returned
    args,      \* PartialDerivative.__init__: the positional arguments
    derivs,    \* PartialDerivative.derivs: insertion-ordered axis -> order
    op,        \* the operator tree apply is called on
    fd,        \* the grid context handed to apply
    heap,      \* the array objects alive, by identity: heap[1] is the
               \* caller's field u (apply) or the input y (_diff)
    ret,       \* identity of the array the last call returned, 0 if none
    log,       \* the [axis, src, dst] steps of the last apply, in order
    calls,     \* number of apply calls made so far
    first,     \* outcome of the first apply call: [exc, val]
    init,      \* the inputs as the caller last left them: [op, fd, u]
    written,   \* the caller has written into the returned array
    yd,        \* _diff / _diff_non_uni: identity of the accumulator, 0 if none
    dim,       \* _diff / _diff_non_uni: the axis differentiated
    deriv,     \* _diff: the derivative order
    scheme,    \* _diff: the scheme of the current pass
    ref_slice, \* _diff: the reference slice of the current pass
    off_slices,\* _diff: the shifted slices of the current pass
    i,         \* _diff_non_uni: the index along dim being processed
    hits,      \* per index along dim: the schemes that accumulated into it
    reads      \* the <<index, offset, index read>> triples of the passes

vars == <<pc, exc, args, derivs, op, fd, heap, ret, log, calls, first, init,
          written, yd, dim, deriv, scheme, ref_slice, off_slices, i, hits, reads>>

ctorVars  == <<args, derivs>>
applyVars == <<op, log, calls, first, init, written>>
diffVars  == <<yd, dim, deriv, scheme, ref_slice, off_slices, i, hits, reads>>

None == "none"

\* F(x), with x evaluated once and bound to its value.
With(x, F(_)) == CHOOSE v \in {F(r) : r \in {x}} : TRUE

(***************************************************************************)
(* Bounds of the model.                                                    *)
(***************************************************************************)
MaxArgs     == 3   \* positional arguments given to the constructor
MaxTupleLen == 3   \* elements of a tuple argument

(***************************************************************************)
(* Python values.                                                          *)
(***************************************************************************)
PyInt(n)    == [t |-> "int",   v |-> n, items |-> <<>>]
PyFloat     == [t |-> "float", v |-> 0, items |-> <<>>]
PyTuple(s)  == [t |-> "tuple", v |-> 0, items |-> s]

IsTuple(a) == a.t = "tuple"
IsInt(a)   == a.t = "int"

Scalars == {PyInt(-1), PyInt(0), PyInt(1), PyFloat}

\* The tuples of the model: every pair of scalars, and one tuple of each
\* other length up to MaxTupleLen.
Tuples ==
    {PyTuple(<<a, b>>) : a \in Scalars, b \in Scalars}
    \cup {PyTuple([k \in 1..n |-> PyInt(1)]) : n \in (0..MaxTupleLen) \ {2}}

Values == Scalars \cup Tuples

ArgLists == UNION {[1..n -> Values] : n \in 0..MaxArgs}

(***************************************************************************)
(* PartialDerivative._assert_tuple_valid: the exception it raises on t,    *)
(* None when t passes.  Unpacking "axis, order = t" raises ValueError when *)
(* t does not hold exactly two elements.                                   *)
(***************************************************************************)
\* As _assert_tuple_valid, but an order of 0 passes ("order < 0").
AssertTupleValidZeroOrder(t) ==
    IF Len(t.items) # 2 THEN "ValueError"
    ELSE IF ~IsInt(t.items[1]) \/ t.items[1].v < 0 THEN "ValueError"
    ELSE IF ~IsInt(t.items[2]) \/ t.items[2].v < 0 THEN "ValueError"
    ELSE None

_assert_tuple_valid(t) ==
    IF Len(t.items) > 2 THEN "ValueError"
    ELSE IF Len(t.items) # 2 THEN "ValueError"
    ELSE LET axis  == t.items[1]
             order == t.items[2]
         IN  IF ~IsInt(axis) \/ axis.v < 0 THEN "ValueError"
             ELSE IF ~IsInt(order) \/ order.v <= 0 THEN "ValueError"
             ELSE None

\* The first exception _assert_tuple_valid raises over the list, in order.
RECURSIVE FirstInvalid(_, _)
FirstInvalid(ts, k) ==
    IF k > Len(ts) THEN None
    ELSE IF _assert_tuple_valid(ts[k]) # None THEN _assert_tuple_valid(ts[k])
    ELSE FirstInvalid(ts, k + 1)

(***************************************************************************)
(* PartialDerivative._convert_to_valid_tuple_list: [exc, tuples].          *)
(* args[1] on a one-element argument list raises IndexError.               *)
(***************************************************************************)
_convert_to_valid_tuple_list(as) ==
    LET all_are_tuples == \A k \in 1..Len(as) : IsTuple(as[k])
    IN  IF all_are_tuples
        THEN [exc |-> FirstInvalid(as, 1), tuples |-> as]
        ELSE IF Len(as) > 2
        THEN [exc |-> "ValueError", tuples |-> <<>>]
        ELSE IF Len(as) < 2
        THEN [exc |-> "IndexError", tuples |-> <<>>]
        ELSE LET all_tuples == <<PyTuple(<<as[1], as[2]>>)>>
             IN  [exc |-> FirstInvalid(all_tuples, 1), tuples |-> all_tuples]

(***************************************************************************)
(* PartialDerivative.__init__: [exc, derivs].  derivs is the dict in       *)
(* insertion order, a sequence of [axis, order]; a repeated axis raises.   *)
(***************************************************************************)
HasAxis(d, a) == \E k \in 1..Len(d) : d[k].axis = a

RECURSIVE StoreDerivs(_, _, _)
StoreDerivs(ts, k, d) ==
    IF k > Len(ts) THEN [exc |-> None, derivs |-> d]
    ELSE LET t == ts[k]
         IN  IF HasAxis(d, t.items[1].v)
             THEN [exc |-> "ValueError", derivs |-> d]
             ELSE StoreDerivs(ts, k + 1,
                     Append(d, [axis |-> t.items[1].v, order |-> t.items[2].v]))

__init__(as) ==
    LET conv == _convert_to_valid_tuple_list(as)
    IN  IF conv.exc # None
        THEN [exc |-> conv.exc, derivs |-> <<>>]
        ELSE StoreDerivs(conv.tuples, 1, <<>>)

(***************************************************************************)
(* numpy arrays and basic slicing.                                         *)
(***************************************************************************)
Idx(shape) == (0..(shape[1] - 1)) \X (0..(shape[2] - 1))

Extent(a, d) == a.shape[d + 1]          \* a.shape[d], axes counted from 0

Coord(idx, d) == idx[d + 1]

Put(idx, d, k) == IF d = 0 THEN <<k, idx[2]>> ELSE <<idx[1], k>>

\* np.zeros_like(a)
zeros_like(a) == [shape |-> a.shape, data |-> [idx \in Idx(a.shape) |-> 0]]

\* A new array object on the heap: [heap, id].
Alloc(h, a) == [heap |-> Append(h, a), id |-> Len(h) + 1]

slice(start, stop) == [start |-> start, stop |-> stop]

\* How numpy resolves one bound of a slice on an axis of extent n: a
\* negative bound counts from the end, and the result is clipped to [0, n].
SliceBound(x, n) ==
    IF x < 0 THEN (IF x + n < 0 THEN 0 ELSE x + n)
    ELSE IF x > n THEN n ELSE x

\* The window [lo, lo + len) a slice selects on an axis of extent n.
Window(sl, n) ==
    LET lo == SliceBound(sl.start, n)
        hi == SliceBound(sl.stop, n)
    IN  [lo |-> lo, len |-> IF hi > lo THEN hi - lo ELSE 0]

\* How numpy resolves an integer index k on an axis of extent n: a negative
\* index counts from the end; -1 stands for IndexError.
IntIndex(k, n) ==
    LET r == IF k < 0 THEN k + n ELSE k
    IN  IF r < 0 \/ r >= n THEN -1 ELSE r

(***************************************************************************)
(* PartialDerivative._shift_slice: [exc, sl].                              *)
(***************************************************************************)
_shift_slice(sl, off, max_index) ==
    IF sl.start + off < 0 \/ sl.stop + off > max_index
    THEN [exc |-> "IndexError", sl |-> sl]
    ELSE [exc |-> None, sl |-> slice(sl.start + off, sl.stop + off)]

\* [self._shift_slice(ref_slice, offsets[k], npts) for k in range(len(offsets))]
ShiftAll(ref, offsets, npts) ==
    IF \E k \in 1..Len(offsets) : _shift_slice(ref, offsets[k], npts).exc # None
    THEN [exc |-> "IndexError", slices |-> <<>>]
    ELSE [exc |-> None,
          slices |-> [k \in 1..Len(offsets) |->
                         _shift_slice(ref, offsets[k], npts).sl]]

(***************************************************************************)
(* yd[ref_multi_slice] += w * y[off_multi_slice], in place on the object   *)
(* ydId: [exc, heap].  The right-hand side is computed from y first; it    *)
(* must have the extent of the reference window along d, or extent 1       *)
(* (broadcast), otherwise numpy raises ValueError.                         *)
(***************************************************************************)
AddShifted(h, ydId, yId, w, s, ref, d) ==
    LET n  == Extent(h[ydId], d)
        rw == Window(ref, n)
        ow == Window(s, Extent(h[yId], d))
        src(idx) == Put(idx, d,
                        IF ow.len = rw.len THEN ow.lo + (Coord(idx, d) - rw.lo)
                        ELSE ow.lo)
        term(idx) == IF w = 1 THEN h[yId].data[src(idx)]
                     ELSE w * h[yId].data[src(idx)]
        inRef(idx) == Coord(idx, d) >= rw.lo /\ Coord(idx, d) < rw.lo + rw.len
    IN  IF ow.len # rw.len /\ ow.len # 1
        THEN [exc |-> "ValueError", heap |-> h]
        ELSE [exc |-> None,
              heap |-> [h EXCEPT ![ydId].data =
                          [idx \in Idx(h[ydId].shape) |->
                              IF inRef(idx) THEN h[ydId].data[idx] + term(idx)
                              ELSE h[ydId].data[idx]]]]

(***************************************************************************)
(* PartialDerivative._apply_to_array: [exc, heap]; the loop over           *)
(* zip(weights, off_slices), from pair k on.                               *)
(***************************************************************************)
Min(a, b) == IF a < b THEN a ELSE b

RECURSIVE ApplyFrom(_, _, _, _, _, _, _, _)
ApplyFrom(h, ydId, yId, weights, offs, ref, d, k) ==
    IF k > Min(Len(weights), Len(offs)) THEN [exc |-> None, heap |-> h]
    ELSE With(AddShifted(h, ydId, yId, weights[k], offs[k], ref, d),
              LAMBDA r :
                 IF r.exc # None THEN r
                 ELSE ApplyFrom(r.heap, ydId, yId, weights, offs, ref, d, k + 1))

_apply_to_array(h, ydId, yId, weights, offs, ref, d) ==
    ApplyFrom(h, ydId, yId, weights, offs, ref, d, 1)

(***************************************************************************)
(* The coefficient provider findiff.coefs.coefficients(order, acc): one    *)
(* record of weights and offsets per scheme.  The accuracy acc is          *)
(* represented by the stencil widths it selects, [half, side]: the center  *)
(* stencil spans -half..half, the forward stencil 0..side-1, the backward  *)
(* stencil -(side-1)..0.  A stencil of a derivative has at least two       *)
(* points.  The weights are integers that sum to zero over each stencil.   *)
(***************************************************************************)
MaxHalf  == 2   \* largest half-width of a center stencil
MaxSide  == 3   \* largest number of points of a one-sided stencil
MaxOrder == 2   \* largest derivative order
MaxN     == 4   \* largest extent of the field along an axis

Accs == [half : 1..MaxHalf, side : 2..MaxSide]

Range(lo, hi) == [k \in 1..(hi - lo + 1) |-> lo + k - 1]

CenterWeight(order, o, p) ==
    IF order % 2 = 1 THEN o ELSE (IF o = 0 THEN -2 * p ELSE 1)

SideWeight(order, o, f) ==
    IF order % 2 = 1
    THEN (IF o = 0 THEN 0 - (f - 1) ELSE 1)
    ELSE (IF o = 0 THEN 2 * (f - 1) ELSE -2)

coefficients(order, acc) ==
    LET p == acc.half
        f == acc.side
        c == Range(0 - p, p)
        fw == Range(0, f - 1)
        bw == Range(0 - (f - 1), 0)
    IN  [center   |-> [coefficients |->
                          [k \in 1..Len(c) |-> CenterWeight(order, c[k], p)],
                       offsets |-> c],
         forward  |-> [coefficients |->
                          [k \in 1..Len(fw) |-> SideWeight(order, fw[k], f)],
                       offsets |-> fw],
         backward |-> [coefficients |->
                          [k \in 1..Len(bw) |->
                              IF order % 2 = 1
                              THEN 0 - SideWeight(order, 0 - bw[k], f)
                              ELSE SideWeight(order, 0 - bw[k], f)],
                       offsets |-> bw]]

(***************************************************************************)
(* PartialDerivative._diff, the uniform stencil engine.                    *)
(***************************************************************************)
\* nbndry = len(weights) // 2, weights those of the center scheme
Nbndry(coefs) == Len(coefs.center.coefficients) \div 2

\* As RefSlice, but the trailing range starts one index early.
RefSliceEarlyTrailing(sch, nbndry, npts) ==
    CASE sch = "center"   -> slice(nbndry, npts - nbndry)
      [] sch = "forward"  -> slice(0, nbndry)
      [] sch = "backward" -> slice(npts - nbndry - 1, npts)

\* The reference slice of a scheme's pass.
RefSlice(sch, nbndry, npts) ==
    CASE sch = "center"   -> slice(nbndry, npts - nbndry)
      [] sch = "forward"  -> slice(0, nbndry)
      [] sch = "backward" -> slice(npts - nbndry, npts)

\* One scheme's "off_slices = [...]" and "_apply_to_array(...)": [exc, heap].
SchemePass(h, ydId, yId, coefs, sch, nbndry, npts, d) ==
    With(ShiftAll(RefSlice(sch, nbndry, npts), coefs[sch].offsets, npts),
         LAMBDA sh :
            IF sh.exc # None THEN [exc |-> sh.exc, heap |-> h]
            ELSE _apply_to_array(h, ydId, yId, coefs[sch].coefficients,
                                 sh.slices, RefSlice(sch, nbndry, npts), d))

RECURSIVE Pow(_, _)
Pow(b, n) == IF n = 0 THEN 1 ELSE b * Pow(b, n - 1)

\* h_inv = 1. / h ** deriv; the spacing h is 1/q for a positive integer q,
\* so h_inv is q ** deriv exactly.
HInv(q, n) == Pow(q, n)

\* yd * h_inv: a new array
Scaled(a, c) == [shape |-> a.shape, data |-> [idx \in Idx(a.shape) |-> a.data[idx] * c]]

\* As NewAccumulator, but accumulating in place ("yd = y").
AccumulateInPlace(h, yId) == [heap |-> h, id |-> yId]

\* yd = np.zeros_like(y): the accumulator is a new object.
NewAccumulator(h, yId) == Alloc(h, zeros_like(h[yId]))

\* The three passes of _diff on the accumulator ydId, in the order of the
\* code: center, forward, backward: [exc, heap].
Passes(h, ydId, yId, coefs, csl, nbndry, npts, d) ==
    With(_apply_to_array(h, ydId, yId, coefs.center.coefficients, csl,
                         RefSlice("center", nbndry, npts), d),
         LAMBDA p1 :
            IF p1.exc # None THEN p1
            ELSE With(SchemePass(p1.heap, ydId, yId, coefs, "forward",
                                 nbndry, npts, d),
                      LAMBDA p2 :
                         IF p2.exc # None THEN p2
                         ELSE SchemePass(p2.heap, ydId, yId, coefs, "backward",
                                         nbndry, npts, d)))

\* return yd * h_inv: [exc, heap, id]
ReturnScaled(h, ydId, c) ==
    With(Alloc(h, Scaled(h[ydId], c)),
         LAMBDA r : [exc |-> None, heap |-> r.heap, id |-> r.id])

\* [exc, heap, id]: id is the array returned, 0 when the call raised.  The
\* center slices are shifted before the accumulator is made.
_diff(h, yId, q, n, d, coefs) ==
    With(ShiftAll(RefSlice("center", Nbndry(coefs), Extent(h[yId], d)),
                  coefs.center.offsets, Extent(h[yId], d)),
         LAMBDA csh :
            IF csh.exc # None THEN [exc |-> csh.exc, heap |-> h, id |-> 0]
            ELSE With(NewAccumulator(h, yId),
                      LAMBDA a :
                         With(Passes(a.heap, a.id, yId, coefs, csh.slices,
                                     Nbndry(coefs), Extent(h[yId], d), d),
                              LAMBDA p :
                                 IF p.exc # None
                                 THEN [exc |-> p.exc, heap |-> p.heap, id |-> 0]
                                 ELSE ReturnScaled(p.heap, a.id, HInv(q, n)))))

(***************************************************************************)
(* The provider findiff.coefs.coefficients_non_uni(order, acc, coords, i): *)
(* the record of index i.  Three providers are modelled: "inbounds" keeps  *)
(* every window inside the axis (a centered window, moved inwards at the   *)
(* ends); "backward" and "forward" hand out the same one-sided window at   *)
(* every index, so that it leaves the axis at one end.                     *)
(***************************************************************************)
Providers == {"inbounds", "backward", "forward"}

Max(a, b) == IF a > b THEN a ELSE b

coefficients_non_uni(order, acc, prov, coords, k) ==
    LET n    == Len(coords)
        p    == acc.half
        f    == acc.side
        w    == Min(2 * p + 1, n)
        lo   == Max(0, Min(k - p, n - w))
        offs == CASE prov = "inbounds" -> Range(lo - k, lo + w - 1 - k)
                  [] prov = "backward" -> Range(0 - (f - 1), 0)
                  [] prov = "forward"  -> Range(0, f - 1)
    IN  [coefficients |-> [j \in 1..Len(offs) |-> CenterWeight(order, offs[j], p)],
         offsets |-> offs]

(***************************************************************************)
(* PartialDerivative._diff_non_uni, the non-uniform stencil engine.        *)
(***************************************************************************)
\* yd[ref_multi_slice] += w * y[multi_slice] with the integer indexes k
\* (into yd) and k + off (into y) along d: [exc, heap].
AddAt(h, ydId, yId, w, k, off, d) ==
    LET r == IntIndex(k + off, Extent(h[yId], d))
        t == IntIndex(k, Extent(h[ydId], d))
    IN  IF r = -1 \/ t = -1 THEN [exc |-> "IndexError", heap |-> h]
        ELSE [exc |-> None,
              heap |-> [h EXCEPT ![ydId].data =
                          [idx \in Idx(h[ydId].shape) |->
                              IF Coord(idx, d) = t
                              THEN h[ydId].data[idx] + w * h[yId].data[Put(idx, d, r)]
                              ELSE h[ydId].data[idx]]]]

\* for off, w in zip(offsets, weights): ..., from pair j on
RECURSIVE RowFrom(_, _, _, _, _, _, _)
RowFrom(h, ydId, yId, rec, k, d, j) ==
    IF j > Min(Len(rec.offsets), Len(rec.coefficients))
    THEN [exc |-> None, heap |-> h]
    ELSE With(AddAt(h, ydId, yId, rec.coefficients[j], k, rec.offsets[j], d),
              LAMBDA r :
                 IF r.exc # None THEN r
                 ELSE RowFrom(r.heap, ydId, yId, rec, k, d, j + 1))

\* for i, x in enumerate(coords): ..., from index k on
RECURSIVE RowsFrom(_, _, _, _, _, _)
RowsFrom(h, ydId, yId, coefs, d, k) ==
    IF k >= Len(coefs) THEN [exc |-> None, heap |-> h]
    ELSE With(RowFrom(h, ydId, yId, coefs[k + 1], k, d, 1),
              LAMBDA r :
                 IF r.exc # None THEN r
                 ELSE RowsFrom(r.heap, ydId, yId, coefs, d, k + 1))

\* [exc, heap, id]; coefs[k + 1] is the record of index k
_diff_non_uni(h, yId, d, coefs) ==
    With(NewAccumulator(h, yId),
         LAMBDA a :
            With(RowsFrom(a.heap, a.id, yId, coefs, d, 0),
                 LAMBDA r :
                    IF r.exc # None THEN [exc |-> r.exc, heap |-> r.heap, id |-> 0]
                    ELSE [exc |-> None, heap |-> r.heap, id |-> a.id]))

(***************************************************************************)
(* PartialDerivative.apply: [exc, heap, id, log].  The grid context fd is  *)
(* [uniform, rspac, coords, acc, prov]: rspac[axis + 1] is 1/fd.spac[axis] *)
(* and coords[axis + 1] is fd.coords[axis].                                *)
(***************************************************************************)
\* As Items, but in the order of axes(): sorted by axis.
RECURSIVE InsertByAxis(_, _)
InsertByAxis(e, d) ==
    IF d = <<>> THEN <<e>>
    ELSE IF e.axis <= Head(d).axis THEN <<e>> \o d
    ELSE <<Head(d)>> \o InsertByAxis(e, Tail(d))

RECURSIVE SortedItems(_)
SortedItems(d) ==
    IF d = <<>> THEN <<>> ELSE InsertByAxis(Head(d), SortedItems(Tail(d)))

\* self.derivs.items(): the dict's entries in insertion order
Items(d) == d

\* One pass of the loop body: the derivative along one axis of object cur.
DiffAxis(h, cur, fdc, axis, order) ==
    IF axis >= Len(fdc.rspac)
    THEN [exc |-> "IndexError", heap |-> h, id |-> 0]
    ELSE IF fdc.uniform
    THEN _diff(h, cur, fdc.rspac[axis + 1], order, axis,
               coefficients(order, fdc.acc))
    ELSE _diff_non_uni(h, cur, axis,
            [k \in 1..Len(fdc.coords[axis + 1]) |->
                coefficients_non_uni(order, fdc.acc, fdc.prov,
                                     fdc.coords[axis + 1], k - 1)])

RECURSIVE ApplyItems(_, _, _, _, _, _)
ApplyItems(h, cur, fdc, items, k, lg) ==
    IF k > Len(items) THEN [exc |-> None, heap |-> h, id |-> cur, log |-> lg]
    ELSE With(DiffAxis(h, cur, fdc, items[k].axis, items[k].order),
              LAMBDA r :
                 With(Append(lg, [axis |-> items[k].axis, src |-> cur, dst |-> r.id]),
                      LAMBDA lg2 :
                         IF r.exc # None
                         THEN [exc |-> r.exc, heap |-> r.heap, id |-> 0, log |-> lg2]
                         ELSE ApplyItems(r.heap, r.id, fdc, items, k + 1, lg2)))

PartialDerivative_apply(h, d, fdc, uId) ==
    ApplyItems(h, uId, fdc, Items(d), 1, <<>>)

(***************************************************************************)
(* Operator trees and Plus.apply / Multiply.apply.  A tree is              *)
(* [kind |-> "pd", derivs], [kind |-> "plus", left, right] or              *)
(* [kind |-> "mul", left, right]; the left operand of a Multiply is a      *)
(* scalar [array |-> FALSE, v] or an array of the field's shape            *)
(* [array |-> TRUE, v].                                                    *)
(***************************************************************************)
PD(d)      == [kind |-> "pd", derivs |-> d]
Plus(l, r) == [kind |-> "plus", left |-> l, right |-> r]
Multiply(l, r) == [kind |-> "mul", left |-> l, right |-> r]

\* The value a multiplier has at index idx.
MulAt(c, idx) == IF c.array THEN c.v + idx[1] + 2 * idx[2] ELSE c.v

\* u_left + u_right
Sum(a, b) == [shape |-> a.shape,
              data |-> [idx \in Idx(a.shape) |-> a.data[idx] + b.data[idx]]]

\* self.left * a
Product(c, a) == [shape |-> a.shape,
                  data |-> [idx \in Idx(a.shape) |-> MulAt(c, idx) * a.data[idx]]]

\* As RightInput, but chaining the operands ("self.right.apply(fd, u_left)").
RightInputChained(uId, leftId) == leftId

\* The field Plus.apply hands to its right operand: the caller's u.
RightInput(uId, leftId) == uId

\* return u_left + u_right: [exc, heap, id, log]
ReturnSum(h, leftId, rightId, lg) ==
    With(Alloc(h, Sum(h[leftId], h[rightId])),
         LAMBDA s : [exc |-> None, heap |-> s.heap, id |-> s.id, log |-> lg])

\* return self.left * a: [exc, heap, id, log]
ReturnProduct(h, c, aId, lg) ==
    With(Alloc(h, Product(c, h[aId])),
         LAMBDA s : [exc |-> None, heap |-> s.heap, id |-> s.id, log |-> lg])

RECURSIVE apply(_, _, _, _)
apply(o, fdc, h, uId) ==
    CASE o.kind = "pd" -> PartialDerivative_apply(h, o.derivs, fdc, uId)
      [] o.kind = "plus" ->
            With(apply(o.left, fdc, h, uId),
                 LAMBDA l :
                    IF l.exc # None THEN l
                    ELSE With(apply(o.right, fdc, l.heap, RightInput(uId, l.id)),
                              LAMBDA r :
                                 IF r.exc # None
                                 THEN [r EXCEPT !.log = l.log \o r.log]
                                 ELSE ReturnSum(r.heap, l.id, r.id,
                                                l.log \o r.log)))
      [] o.kind = "mul" ->
            With(apply(o.right, fdc, h, uId),
                 LAMBDA r :
                    IF r.exc # None THEN r
                    ELSE ReturnProduct(r.heap, o.left, r.id, r.log))

(***************************************************************************)
(* Values the variables a specification does not use are held at.          *)
(***************************************************************************)
CtorIdle  == args = <<>> /\ derivs = None
ApplyIdle == op = None /\ log = <<>> /\ calls = 0 /\ first = None
             /\ init = None /\ written = FALSE
DiffIdle  == yd = 0 /\ dim = 0 /\ deriv = 0 /\ scheme = None
             /\ ref_slice = None /\ off_slices = <<>> /\ i = 0
             /\ hits = <<>> /\ reads = {}

(***************************************************************************)
(* SpecCtor: the caller builds one PartialDerivative(args...).               *)
(***************************************************************************)
InitCtor ==
    /\ pc = "call" /\ exc = None
    /\ args \in ArgLists
    /\ derivs = None
    /\ fd = None /\ heap = <<>> /\ ret = 0
    /\ ApplyIdle /\ DiffIdle

\* PartialDerivative.__init__ on args: the object holds derivs if it returns.
New ==
    /\ pc = "call"
    /\ \E r \in {__init__(args)} :
           /\ exc' = r.exc
           /\ pc' = IF r.exc = None THEN "done" ELSE "raised"
           /\ derivs' = IF r.exc = None THEN r.derivs ELSE None
    /\ UNCHANGED <<args, fd, heap, ret, applyVars, diffVars>>

NextCtor == New

SpecCtor == InitCtor /\ [][NextCtor]_vars

(***************************************************************************)
(* The inputs of apply: fields, grid contexts, operator trees.             *)
(***************************************************************************)
MaxCalls == 2   \* apply calls in one behaviour

Shapes == (0..MaxN) \X (0..MaxN)

\* The caller's field of a shape: all its values differ.
Field(shape) ==
    [shape |-> shape,
     data |-> [idx \in Idx(shape) |-> Pow(2, idx[1]) * Pow(3, idx[2])]]

\* Coordinates of a non-uniform axis of n points.
AxisCoords(n) == [k \in 1..n |-> k * k]

Grid(shape, uni, acc, prov) ==
    [uniform |-> uni, rspac |-> <<1, 2>>,
     coords |-> <<AxisCoords(shape[1]), AxisCoords(shape[2])>>,
     acc |-> acc, prov |-> prov]

\* Argument lists of valid pairs over the axes 0, 1, and the operators the
\* constructor builds from them.
PairArgs ==
    {PyTuple(<<PyInt(a), PyInt(n)>>) : a \in 0..1, n \in 1..MaxOrder}

LeafArgs == {as \in UNION {[1..n -> PairArgs] : n \in 0..2} : __init__(as).exc = None}

Leaves == {PD(__init__(as).derivs) : as \in LeafArgs}

Identity == PD(<<>>)
Dx       == PD(<<[axis |-> 0, order |-> 1]>>)
Dyy      == PD(<<[axis |-> 1, order |-> 2]>>)

Multipliers == {[array |-> FALSE, v |-> 3], [array |-> TRUE, v |-> 1]}

Small == {Identity, Dx, Dyy}

Combined ==
    {Plus(a, b) : a \in Small, b \in Small}
    \cup {Multiply(c, a) : c \in Multipliers, a \in Small}

Nested ==
    {Plus(Multiply(c, Dx), Multiply(c, Dyy)) : c \in Multipliers}
    \cup {Multiply(c, Plus(Dx, a)) : c \in Multipliers, a \in Small}
    \cup {Plus(Plus(Dx, a), Dyy) : a \in Small}

Trees == Leaves \cup Combined \cup Nested

(***************************************************************************)
(* Spec: the caller holds an operator tree, a grid context and a field,    *)
(* calls apply on them, and may write into the array apply returned.       *)
(***************************************************************************)
Init ==
    /\ pc = "idle" /\ exc = None
    /\ CtorIdle
    /\ op \in Trees
    /\ \E shape \in Shapes :
          /\ heap = <<Field(shape)>>
          /\ \/ \E acc \in Accs : fd = Grid(shape, TRUE, acc, "inbounds")
             \/ \E acc \in Accs : fd = Grid(shape, FALSE, acc, "inbounds")
    /\ init = [op |-> op, fd |-> fd, u |-> heap[1]]
    /\ ret = 0 /\ log = <<>> /\ calls = 0 /\ first = None /\ written = FALSE
    /\ DiffIdle

\* op.apply(fd, u).  Of the objects the call made, only the one it returned
\* stays alive; it is heap[2] unless it is u itself.
Apply ==
    /\ pc \in {"idle", "returned", "raised"}
    /\ calls < MaxCalls
    /\ \E r \in {apply(op, fd, <<heap[1]>>, 1)} :
           /\ exc' = r.exc
           /\ pc' = IF r.exc = None THEN "returned" ELSE "raised"
           /\ heap' = IF r.exc = None /\ r.id # 1
                      THEN <<r.heap[1], r.heap[r.id]>>
                      ELSE <<r.heap[1]>>
           /\ ret' = IF r.exc # None THEN 0 ELSE IF r.id = 1 THEN 1 ELSE 2
           /\ log' = r.log
           /\ first' = IF calls = 0
                       THEN [exc |-> r.exc,
                             val |-> IF r.exc = None THEN r.heap[r.id] ELSE None]
                       ELSE first
    /\ calls' = calls + 1
    /\ UNCHANGED <<op, fd, init, written, ctorVars, diffVars>>

\* The caller writes into the array the last call returned.
WriteResult ==
    /\ pc = "returned" /\ ~written
    /\ <<0, 0>> \in Idx(heap[ret].shape)
    /\ heap' = [heap EXCEPT ![ret].data[<<0, 0>>] = @ + 1]
    /\ init' = [init EXCEPT !.u = heap'[1]]
    /\ written' = TRUE
    /\ UNCHANGED <<pc, exc, op, fd, ret, log, calls, first, ctorVars, diffVars>>

Next == Apply \/ WriteResult

Spec == Init /\ [][Next]_vars

(***************************************************************************)
(* SpecDiff: one call of _diff (uniform grid) or _diff_non_uni             *)
(* (non-uniform grid) on the field heap[1], pass by pass.  hits and reads  *)
(* record which indexes along dim each pass accumulated into and read.     *)
(***************************************************************************)
y == heap[1]

npts == Extent(y, dim)

coefs == coefficients(deriv, fd.acc)

\* coefs[i] of PartialDerivative.apply's non-uniform branch
NonUniRecord(k) ==
    coefficients_non_uni(deriv, fd.acc, fd.prov, fd.coords[dim + 1], k)

InitDiff ==
    /\ pc \in {"shift", "zeros"} /\ exc = None
    /\ CtorIdle /\ ApplyIdle
    /\ dim \in 0..1
    /\ deriv \in 1..MaxOrder
    /\ \E shape \in Shapes :
          /\ heap = <<Field(shape)>>
          /\ hits = [k \in 0..(shape[dim + 1] - 1) |-> <<>>]
          /\ \E acc \in Accs :
                \/ pc = "shift" /\ fd = Grid(shape, TRUE, acc, "inbounds")
                \/ pc = "zeros" /\ \E prov \in Providers :
                                      fd = Grid(shape, FALSE, acc, prov)
    /\ scheme = IF pc = "shift" THEN "center" ELSE None
    /\ ret = 0 /\ yd = 0 /\ i = 0
    /\ ref_slice = None /\ off_slices = <<>> /\ reads = {}

\* ref_slice = slice(...); off_slices = [self._shift_slice(...) ...]
ShiftSlices ==
    /\ pc = "shift"
    /\ ref_slice' = RefSlice(scheme, Nbndry(coefs), npts)
    /\ \E sh \in {ShiftAll(RefSlice(scheme, Nbndry(coefs), npts),
                           coefs[scheme].offsets, npts)} :
          /\ exc' = sh.exc
          /\ off_slices' = sh.slices
          /\ pc' = IF sh.exc # None THEN "raised"
                   ELSE IF scheme = "center" THEN "zeros" ELSE "apply"
    /\ UNCHANGED <<fd, heap, ret, yd, dim, deriv, scheme, i, hits, reads,
                   ctorVars, applyVars>>

\* yd = np.zeros_like(y)
ZerosLike ==
    /\ pc = "zeros"
    /\ \E a \in {NewAccumulator(heap, 1)} :
          /\ heap' = a.heap
          /\ yd' = a.id
    /\ pc' = IF fd.uniform THEN "apply" ELSE "row"
    /\ UNCHANGED <<exc, fd, ret, dim, deriv, scheme, ref_slice, off_slices,
                   i, hits, reads, ctorVars, applyVars>>

\* The indexes along dim the pass accumulates into: the reference window.
RefIndexes ==
    LET rw == Window(ref_slice, npts)
    IN  IF Len(off_slices) = 0 THEN {} ELSE rw.lo .. (rw.lo + rw.len - 1)

\* <<index, offset, index read>> of the pass.
PassReads ==
    LET rw == Window(ref_slice, npts)
    IN  {<<rw.lo + j, coefs[scheme].offsets[k],
           Window(off_slices[k], npts).lo
             + (IF Window(off_slices[k], npts).len = rw.len THEN j ELSE 0)>> :
            j \in 0..(rw.len - 1), k \in 1..Len(off_slices)}

NextScheme(sch) == IF sch = "center" THEN "forward" ELSE "backward"

\* self._apply_to_array(yd, y, weights, off_slices, ref_slice, dim)
ApplyToArray ==
    /\ pc = "apply"
    /\ \E r \in {_apply_to_array(heap, yd, 1, coefs[scheme].coefficients,
                                 off_slices, ref_slice, dim)} :
          /\ exc' = r.exc
          /\ heap' = r.heap
          /\ IF r.exc # None
             THEN pc' = "raised" /\ UNCHANGED <<scheme, hits, reads>>
             ELSE /\ pc' = IF scheme = "backward" THEN "scale" ELSE "shift"
                  /\ scheme' = IF scheme = "backward" THEN scheme
                               ELSE NextScheme(scheme)
                  /\ hits' = [k \in DOMAIN hits |->
                                 IF k \in RefIndexes THEN Append(hits[k], scheme)
                                 ELSE hits[k]]
                  /\ reads' = reads \cup PassReads
    /\ UNCHANGED <<fd, ret, yd, dim, deriv, ref_slice, off_slices, i,
                   ctorVars, applyVars>>

\* h_inv = 1. / h ** deriv; return yd * h_inv
Scale ==
    /\ pc = "scale"
    /\ \E r \in {ReturnScaled(heap, yd, HInv(fd.rspac[dim + 1], deriv))} :
          /\ heap' = r.heap
          /\ ret' = r.id
    /\ pc' = "done"
    /\ UNCHANGED <<exc, fd, yd, dim, deriv, scheme, ref_slice, off_slices,
                   i, hits, reads, ctorVars, applyVars>>

\* One pass of "for i, x in enumerate(coords)" of _diff_non_uni.
Row ==
    /\ pc = "row" /\ i < Len(fd.coords[dim + 1])
    /\ \E r \in {RowFrom(heap, yd, 1, NonUniRecord(i), i, dim, 1)} :
          /\ exc' = r.exc
          /\ heap' = r.heap
          /\ IF r.exc # None
             THEN pc' = "raised" /\ UNCHANGED <<i, reads>>
             ELSE /\ pc' = pc
                  /\ i' = i + 1
                  /\ reads' = reads \cup
                        {<<i, NonUniRecord(i).offsets[k],
                           IntIndex(i + NonUniRecord(i).offsets[k], npts)>> :
                            k \in 1..Len(NonUniRecord(i).offsets)}
    /\ UNCHANGED <<fd, ret, yd, dim, deriv, scheme, ref_slice, off_slices,
                   hits, ctorVars, applyVars>>

\* return yd
ReturnNonUni ==
    /\ pc = "row" /\ i = Len(fd.coords[dim + 1])
    /\ ret' = yd
    /\ pc' = "done"
    /\ UNCHANGED <<exc, fd, heap, yd, dim, deriv, scheme, ref_slice,
                   off_slices, i, hits, reads, ctorVars, applyVars>>

NextDiff ==
    ShiftSlices \/ ZerosLike \/ ApplyToArray \/ Scale \/ Row \/ ReturnNonUni

SpecDiff == InitDiff /\ [][NextDiff]_vars

(***************************************************************************)
(* Properties of the constructor (SpecCtor).                               *)
(***************************************************************************)
IsPair(a) == IsTuple(a) /\ Len(a.items) = 2

AllPairs(as) == \A k \in 1..Len(as) : IsPair(as[k])

ValidPair(t) ==
    /\ IsInt(t.items[1]) /\ t.items[1].v >= 0
    /\ IsInt(t.items[2]) /\ t.items[2].v > 0

AllValid(as) == \A k \in 1..Len(as) : ValidPair(as[k])

RepeatsAxis(as) ==
    \E j, k \in 1..Len(as) : j < k /\ as[j].items[1] = as[k].items[1]

PairsOf(as) ==
    [k \in 1..Len(as) |-> [axis |-> as[k].items[1].v, order |-> as[k].items[2].v]]

\* C4: a list of pairs is rejected by the constructor with ValueError, and
\* no operator is built, when some axis is not a non-negative integer, some
\* order is not a positive integer or an axis repeats; every other list of
\* pairs builds an operator whose derivs are exactly the pairs, in order.
C4_EagerValidation ==
    (pc # "call" /\ AllPairs(args)) =>
        IF ~AllValid(args) \/ RepeatsAxis(args)
        THEN pc = "raised" /\ exc = "ValueError" /\ derivs = None
        ELSE pc = "done" /\ exc = None /\ derivs = PairsOf(args)

\* Two valid pairs on the same axis were rejected.
C4_Witness ==
    /\ pc = "raised" /\ exc = "ValueError"
    /\ Len(args) = 2 /\ AllPairs(args) /\ AllValid(args) /\ RepeatsAxis(args)

Shorthand(as) ==
    /\ Len(as) = 2 /\ ~IsTuple(as[1]) /\ ~IsTuple(as[2])
    /\ ValidPair(PyTuple(<<as[1], as[2]>>))

WellFormed(as) ==
    \/ AllPairs(as) /\ AllValid(as) /\ ~RepeatsAxis(as)
    \/ Shorthand(as)

\* C5: the empty list, a list of valid pairs and the (axis, order) shorthand
\* build an operator; every other argument list fails with ValueError and
\* with no other kind of error.
C5_OnlyConfigurationError ==
    pc # "call" =>
        IF WellFormed(args) THEN pc = "done" /\ exc = None
        ELSE pc = "raised" /\ exc = "ValueError"

(***************************************************************************)
(* Properties of apply (Spec).                                             *)
(***************************************************************************)
\* The field as the caller built it, before any call.
U0 == Field(heap[1].shape)

Val(r) == r.heap[r.id]

\* C1: when both operands apply successfully to the caller's field, Plus
\* returns their elementwise sum, each operand having seen that field; when
\* the operand applies successfully, Multiply returns it multiplied
\* elementwise by the scalar or by the array of the field's shape.
C1_Combinators ==
    calls >= 1 =>
        /\ op.kind = "plus" =>
              \A a \in {apply(op.left, fd, <<U0>>, 1)} :
              \A b \in {apply(op.right, fd, <<U0>>, 1)} :
                 (a.exc = None /\ b.exc = None) =>
                    /\ first.exc = None
                    /\ first.val.shape = U0.shape
                    /\ \A idx \in Idx(U0.shape) :
                          first.val.data[idx]
                            = Val(a).data[idx] + Val(b).data[idx]
        /\ op.kind = "mul" =>
              \A a \in {apply(op.right, fd, <<U0>>, 1)} :
                 a.exc = None =>
                    /\ first.exc = None
                    /\ first.val.shape = U0.shape
                    /\ \A idx \in Idx(U0.shape) :
                          first.val.data[idx]
                            = MulAt(op.left, idx) * Val(a).data[idx]

\* A sum of two different array multiples of derivatives was returned on a
\* field that has elements.
C1_Witness ==
    /\ pc = "returned" /\ calls = 1
    /\ op.kind = "plus" /\ op.left.kind = "mul" /\ op.right.kind = "mul"
    /\ op.left.left.array
    /\ heap[1].shape = <<MaxN, MaxN>>

\* C2: whatever calls were made and whether they returned or raised, the
\* field holds what the caller left in it, the operator tree and the grid
\* context are the ones the caller built, and a call repeated on the same
\* inputs has the outcome of the first.
C2_ApplyIsPure ==
    /\ heap[1] = init.u
    /\ op = init.op
    /\ fd = init.fd
    /\ (calls >= 2 /\ ~written) =>
          first = [exc |-> exc, val |-> IF exc = None THEN heap[ret] ELSE None]

\* A second call raised after its left operand had been differentiated.
C2_Witness ==
    /\ calls = 2 /\ pc = "raised"
    /\ op.kind = "plus"
    /\ Len(log) = 2 /\ log[1].dst # 0 /\ log[2].dst = 0

\* C3: a call that returns hands back an array that is not the caller's
\* field and has its shape, so the field keeps the values the caller built
\* it with whatever is written into the returned array.
C3_FreshResult ==
    /\ pc = "returned" => (ret # 1 /\ heap[ret].shape = heap[1].shape)
    /\ heap[1] = U0

\* C9: a PartialDerivative differentiates along its axes in the order of
\* its derivs (the order the pairs were given in), on every call; the first
\* step reads the caller's field and each later step the array the step
\* before returned; with no entries the field itself is returned.
C9_InsertionOrder ==
    (calls >= 1 /\ op.kind = "pd") =>
        /\ Len(log) <= Len(op.derivs)
        /\ \A k \in 1..Len(log) :
              /\ log[k].axis = op.derivs[k].axis
              /\ log[k].src = IF k = 1 THEN 1 ELSE log[k - 1].dst
              /\ k < Len(log) => log[k].dst # 0
        /\ exc = None =>
              /\ Len(log) = Len(op.derivs)
              /\ \A k \in 1..Len(log) : log[k].dst # 0
        /\ exc # None => (Len(log) >= 1 /\ log[Len(log)].dst = 0)
        /\ op.derivs = <<>> => (exc = None /\ heap[ret] = init.u)

\* A derivative given as ((1, n), (0, m)) was applied twice along both axes.
C9_Witness ==
    /\ calls = 2 /\ pc = "returned"
    /\ op.kind = "pd" /\ Len(op.derivs) = 2
    /\ op.derivs[1].axis = 1 /\ op.derivs[2].axis = 0
    /\ Len(log) = 2

(***************************************************************************)
(* Properties of the stencil engines (SpecDiff).                           *)
(***************************************************************************)
Schemes == {"center", "forward", "backward"}

InAxis(k) == 0 <= k /\ k < npts

\* The scheme of index k: forward on [0, b), center on [b, npts - b),
\* backward on [npts - b, npts), b the half-width of the center stencil.
SchemeAt(k) ==
    IF k < Nbndry(coefs) THEN "forward"
    ELSE IF k < npts - Nbndry(coefs) THEN "center"
    ELSE "backward"

\* The sum of weight * y[idx + offset along dim] over a record, from pair j.
RECURSIVE StencilSum(_, _, _)
StencilSum(rec, idx, j) ==
    IF j > Len(rec.offsets) THEN 0
    ELSE rec.coefficients[j]
           * y.data[Put(idx, dim, Coord(idx, dim) + rec.offsets[j])]
         + StencilSum(rec, idx, j + 1)

\* Every index a record reads from index k lies on the axis.
ReadsInAxis(rec, k) == \A j \in 1..Len(rec.offsets) : InAxis(k + rec.offsets[j])

\* The reads recorded are those of offsets added to the index, on the axis.
ReadsAsShifted == \A t \in reads : t[3] = t[1] + t[2] /\ InAxis(t[3])

\* C6: on a uniform grid, a call with a center stencil whose half-width
\* exceeds half the extent of the axis ends by raising IndexError.
C6_SmallGridRaises ==
    (fd.uniform /\ pc \in {"done", "raised"} /\ 2 * Nbndry(coefs) > npts) =>
        (pc = "raised" /\ exc = "IndexError")

\* C7: when _diff returns, every index along the axis was accumulated into
\* by exactly one pass, the pass of its range: forward on [0, b), center on
\* [b, npts - b), backward on [npts - b, npts).
C7_Partition ==
    (fd.uniform /\ pc = "done") =>
        \A k \in 0..(npts - 1) : hits[k] = <<SchemeAt(k)>>

\* _diff returned on an axis where the three ranges all hold an index.
C7_Witness ==
    /\ fd.uniform /\ pc = "done"
    /\ npts = 4 /\ Nbndry(coefs) = 1

\* What _diff returns: at every index, 1/h^n times the stencil sum of the
\* scheme of its range, read at the index plus each offset, on the axis.
C8_Result ==
    (fd.uniform /\ pc = "done") =>
        /\ ReadsAsShifted
        /\ heap[ret].shape = y.shape
        /\ \A idx \in Idx(y.shape) :
              /\ ReadsInAxis(coefs[SchemeAt(Coord(idx, dim))], Coord(idx, dim))
              /\ \A j \in 1..Len(coefs[SchemeAt(Coord(idx, dim))].offsets) :
                    <<Coord(idx, dim),
                      coefs[SchemeAt(Coord(idx, dim))].offsets[j],
                      Coord(idx, dim) + coefs[SchemeAt(Coord(idx, dim))].offsets[j]>>
                      \in reads
              /\ heap[ret].data[idx]
                   = HInv(fd.rspac[dim + 1], deriv)
                       * StencilSum(coefs[SchemeAt(Coord(idx, dim))], idx, 1)

\* The indexes of a scheme's range.
RefRange(sch) ==
    CASE sch = "center"   -> Nbndry(coefs) .. (npts - Nbndry(coefs) - 1)
      [] sch = "forward"  -> 0 .. (Nbndry(coefs) - 1)
      [] sch = "backward" -> (npts - Nbndry(coefs)) .. (npts - 1)

\* Some index of some range, shifted by an offset of its scheme, leaves
\* the axis.
WindowLeaves ==
    \E sch \in Schemes : \E k \in RefRange(sch) : ~ReadsInAxis(coefs[sch], k)

\* C8: when _diff returns, the output is the scaled stencil sum of each
\* index's scheme and every read is on the axis; a call in which a shifted
\* window leaves the axis ends by raising IndexError.
C8_UniformStencil ==
    fd.uniform =>
        /\ C8_Result
        /\ (pc \in {"done", "raised"} /\ WindowLeaves) =>
              (pc = "raised" /\ exc = "IndexError")

\* Some record of the non-uniform provider reads off the axis.
RecordLeaves ==
    \E k \in 0..(npts - 1) : ~ReadsInAxis(NonUniRecord(k), k)

\* C10: in the non-uniform engine every value read for index i is the one at
\* i + offset, on the axis; a call with a record whose offset leaves the
\* axis ends by raising IndexError; and when no offset leaves the axis the
\* output at i is the sum of weight * field[i + offset], unscaled.
C10_NonUniformBounds ==
    ~fd.uniform =>
        /\ ReadsAsShifted
        /\ (pc \in {"done", "raised"} /\ RecordLeaves) =>
              (pc = "raised" /\ exc = "IndexError")
        /\ (pc = "done" /\ ~RecordLeaves) =>
              \A idx \in Idx(y.shape) :
                 heap[ret].data[idx]
                   = StencilSum(NonUniRecord(Coord(idx, dim)), idx, 1)

\* The part of C10 the engine keeps: with every offset on the axis, the
\* output is the unscaled stencil sum.
NonUniformResult ==
    (~fd.uniform /\ pc = "done" /\ ~RecordLeaves) =>
        /\ ReadsAsShifted
        /\ \A idx \in Idx(y.shape) :
              heap[ret].data[idx]
                = StencilSum(NonUniRecord(Coord(idx, dim)), idx, 1)

====
